---- MODULE Spec2Model ----
(***************************************************************************)
(* Model of main.py, the Streamlit script that estimates the mass of wood  *)
(* logs from the bounding boxes a detection model returns for an uploaded  *)
(* image.                                                                  *)
(*                                                                         *)
(* Units.  Python computes in binary floating point; the model computes    *)
(* the same expressions exactly, in scaled integers:                       *)
(*   pixel coordinates of the model output   half pixels (201 = 100.5 px)  *)
(*   confidence                              thousandths                   *)
(*   FATOR_CONVERSAO                         mm per pixel (0.002 m = 2)    *)
(*   diametro_m, raio                        mm                            *)
(*   math.pi                                 PiNum / PiDen                 *)
(*   volume                                  1 / (PiDen * 10^6) m^3        *)
(*   massa_kg                                1 / (PiDen * 10^6) kg         *)
(*   COMPRIMENTO_TORA                        m                             *)
(*   DENSIDADE_MADEIRA                       kg / m^3                      *)
(***************************************************************************)
EXTENDS Integers, Sequences, FiniteSets

\* ---------------------------------------------------------------- bounds

\* Longest list of boxes the detection model returns for one image.
MaxDets == 2
\* Number of box widths beyond 100 px that the detection model may return.
MaxExtra == 1

\* ------------------------------------------------------------- constants

\* math.pi as the rational PiNum / PiDen.
PiNum == 22
PiDen == 7
\* Units of massa_kg and volume per kg and per m^3: PiDen * 10^6.
Escala == PiDen * 1000000

\* Module-level defaults, lines 9-11.
DENSIDADE_PADRAO == 600
COMPRIMENTO_PADRAO == 2
FATOR_PADRAO == 2

\* The options of the selectbox, lines 147-150.
TiposMadeira == {"Pinho", "Carvalho", "Personalizado"}
\* Values the number_input accepts (min_value 100, max_value 1000), sampled
\* at both ends, at its default and at one value between.
DensidadesPersonalizadas == {100, 600, 850, 1000}
\* Every density DENSIDADE_MADEIRA can hold.
Densidades == {500, 700, DENSIDADE_PADRAO} \cup DensidadesPersonalizadas

\* ------------------------------------------------------------ the inputs

\* det.xyxy[0] of one box, in half pixels: x1 = 100, y1 = 100, y2 = 150 and
\* x2 one of 100.5 (width 0 after int()), 150, 200, 200 + k.
X2Brutos == {201, 300, 400} \cup {2 * (200 + k) : k \in 1..MaxExtra}
Confiancas == {512, 873}
\* Every box at confidence 0.873; the boxes of width 0 and 100 also at 0.512.
Deteccoes ==
    [xyxy : {<<200, 200, x2, 300>> : x2 \in X2Brutos}, conf : {873}]
        \cup [xyxy : {<<200, 200, x2, 300>> : x2 \in {201, 400}}, conf : Confiancas]

RECURSIVE SeqsAte(_, _)
SeqsAte(S, n) ==
    IF n = 0 THEN {<<>>}
    ELSE LET menores == SeqsAte(S, n - 1)
         IN  menores \cup {Append(s, e) : s \in {t \in menores : Len(t) = n - 1}, e \in S}

\* What modelo(imagem) returns for the images a user can upload.
ListasDeDeteccoes == SeqsAte(Deteccoes, MaxDets)

\* ------------------------------------------------------------- the state

VARIABLES
    pc,                      \* position of the script run
    DENSIDADE_MADEIRA,       \* module global, line 9
    COMPRIMENTO_TORA,        \* module global, line 10
    FATOR_CONVERSAO,         \* module global, line 11
    arquivo,                 \* st.file_uploader widget: "None" or the upload
    tipo_madeira,            \* st.selectbox widget
    densidade_personalizada, \* st.number_input widget
    heap,                    \* numpy arrays: reference -> image contents
    imagem,                  \* reference of the input image (0: unbound)
    imagem_anotada,          \* reference of the annotated image (0: unbound)
    resultados,              \* resultados[0].boxes
    idx,                     \* position of the for loop of line 26
    previsoes,               \* the list of measurement records
    exibido                  \* what the results column shows

vars == <<pc, DENSIDADE_MADEIRA, COMPRIMENTO_TORA, FATOR_CONVERSAO, arquivo,
          tipo_madeira, densidade_personalizada, heap, imagem, imagem_anotada,
          resultados, idx, previsoes, exibido>>

calibracao == <<DENSIDADE_MADEIRA, COMPRIMENTO_TORA, FATOR_CONVERSAO>>
widgets == <<arquivo, tipo_madeira, densidade_personalizada>>
locais == <<heap, imagem, imagem_anotada, resultados, idx, previsoes, exibido>>

\* An array is its pixels before any drawing plus the drawings made on it, in
\* order.  np.array(Image.open(arquivo)), line 90: the pixels of the upload.
ImagemCarregada == [pix |-> "upload", ops |-> <<>>]
SemArquivo == [presente |-> FALSE, boxes |-> <<>>]
SemResumo == [mostrado |-> FALSE, massa_total |-> 0,
              diametro_medio |-> [num |-> 0, den |-> 1]]
NadaExibido == [toras |-> -1, resumo |-> SemResumo]

\* ------------------------------------------------- the per-box arithmetic

\* int() of line 28: truncation toward zero of a coordinate held in half pixels.
IntTrunc(h) == IF h >= 0 THEN h \div 2 ELSE -((-h) \div 2)

\* x1, y1, x2, y2 = map(int, det.xyxy[0].cpu().numpy()), line 28.
CaixaInt(det) == <<IntTrunc(det.xyxy[1]), IntTrunc(det.xyxy[2]),
                   IntTrunc(det.xyxy[3]), IntTrunc(det.xyxy[4])>>

LarguraInclusiva(x1, x2) == x2 - x1 + 1
\* largura_px = x2 - x1, line 31.
LarguraPx(x1, x2) == x2 - x1

\* diametro_m = largura_px * FATOR_CONVERSAO, line 32 (mm).
DiametroM(largura_px, fator) == largura_px * fator

RaioSemMetade(diametro_m) == diametro_m
\* raio = diametro_m / 2, line 33 (mm; exact, the factor being even).
Raio(diametro_m) == diametro_m \div 2

\* volume = math.pi * (raio ** 2) * COMPRIMENTO_TORA, line 34.
Volume(raio, comprimento) == PiNum * (raio * raio) * comprimento

MassaKgInteira(densidade, volume) == ((densidade * volume) \div Escala) * Escala
\* massa_kg = DENSIDADE_MADEIRA * volume, line 35.
MassaKg(densidade, volume) == densidade * volume

\* Lines 31-35 for one integer box.
MassaDe(largura_px, densidade, fator, comprimento) ==
    MassaKg(densidade, Volume(Raio(DiametroM(largura_px, fator)), comprimento))

PrevisaoTrocada(det, densidade, fator, comprimento) ==
    LET b == CaixaInt(det)
        largura_px == LarguraPx(b[1], b[3])
    IN  [bbox |-> <<b[3], b[4], b[1], b[2]>>,
         diametro_m |-> DiametroM(largura_px, fator),
         massa_kg |-> MassaDe(largura_px, densidade, fator, comprimento),
         confianca |-> det.conf]
\* The record appended at lines 38-43.
Previsao(det, densidade, fator, comprimento) ==
    LET b == CaixaInt(det)
        largura_px == LarguraPx(b[1], b[3])
    IN  [bbox |-> b,
         diametro_m |-> DiametroM(largura_px, fator),
         massa_kg |-> MassaDe(largura_px, densidade, fator, comprimento),
         confianca |-> det.conf]

\* Rounding of a format specification (:.1f, :.2f): n / d to the nearest
\* integer, ties to even.
ArredondaNat(n, d) ==
    LET q == n \div d
        r == n % d
    IN  IF 2 * r < d THEN q
        ELSE IF 2 * r > d THEN q + 1
        ELSE IF q % 2 = 0 THEN q ELSE q + 1
Arredonda(n, d) == IF n >= 0 THEN ArredondaNat(n, d) ELSE -ArredondaNat(-n, d)

\* texto of line 49: tenths of kg, centimetres, hundredths of confidence.
Texto(prev) ==
    [massa |-> Arredonda(prev.massa_kg, Escala \div 10),
     diametro |-> Arredonda(prev.diametro_m, 10),
     confianca |-> Arredonda(prev.confianca, 10)]

\* The three drawing calls of lines 46-75 for one record.
Desenhos(prev) ==
    LET x1 == prev.bbox[1]
        y1 == prev.bbox[2]
    IN  << [op |-> "rectangle", pt1 |-> <<x1, y1>>,
            pt2 |-> <<prev.bbox[3], prev.bbox[4]>>],
           \* the filled rectangle sized by cv2.getTextSize(texto), whose
           \* lower left corner is (x1, y1)
           [op |-> "etiqueta", canto |-> <<x1, y1>>, texto |-> Texto(prev)],
           [op |-> "putText", org |-> <<x1, y1 - 5>>, texto |-> Texto(prev)] >>

\* cv2 draws in place on the array it is given.
Desenha(img, ops) == [img EXCEPT !.ops = @ \o ops]

CopiaAlias(h, r) == r
\* imagem.copy(), line 23: the reference of a new array.
CopiaRef(h, r) == Len(h) + 1

HeapComZeros(h, r, nova) ==
    [k \in 1..(IF nova > Len(h) THEN nova ELSE Len(h)) |->
        IF k = nova THEN [pix |-> "zeros", ops |-> <<>>] ELSE h[k]]
\* The heap once imagem.copy(), line 23, has filled the array at nova with
\* the contents of the array at r.
HeapComCopia(h, r, nova) ==
    [k \in 1..(IF nova > Len(h) THEN nova ELSE Len(h)) |->
        IF k = nova THEN h[r] ELSE h[k]]

\* ------------------------------------------------------------ the summary

RECURSIVE SomaMassa(_)
SomaMassa(ps) == IF ps = <<>> THEN 0 ELSE Head(ps).massa_kg + SomaMassa(Tail(ps))
RECURSIVE SomaDiametro(_)
SomaDiametro(ps) ==
    IF ps = <<>> THEN 0 ELSE Head(ps).diametro_m + SomaDiametro(Tail(ps))

ResumoSemPrimeira(ps) ==
    [mostrado |-> TRUE,
     massa_total |-> SomaMassa(Tail(ps)),
     diametro_medio |-> [num |-> SomaDiametro(ps), den |-> Len(ps)]]
\* Lines 121-127; diametro_medio is the quotient num / den.
Resumo(ps) ==
    [mostrado |-> TRUE,
     massa_total |-> SomaMassa(ps),
     diametro_medio |-> [num |-> SomaDiametro(ps), den |-> Len(ps)]]

\* Lines 152-161: the density the sidebar widgets select.
DensidadeSelecionada ==
    IF tipo_madeira = "Personalizado" THEN densidade_personalizada
    ELSE IF tipo_madeira = "Pinho" THEN 500 ELSE 700

\* ------------------------------------------------------- the script run

\* Lines 1-86 of a run: the constants are bound.
Inicio ==
    /\ pc = "inicio"
    /\ DENSIDADE_MADEIRA' = DENSIDADE_PADRAO
    /\ COMPRIMENTO_TORA' = COMPRIMENTO_PADRAO
    /\ FATOR_CONVERSAO' = FATOR_PADRAO
    /\ pc' = "upload"
    /\ UNCHANGED <<widgets, locais>>

\* Line 88 with arquivo None: the results block is skipped.
SemUpload ==
    /\ pc = "upload"
    /\ ~arquivo.presente
    /\ pc' = "sidebar"
    /\ UNCHANGED <<calibracao, widgets, locais>>

\* Lines 88-94: the upload is decoded into a new array.
LerImagem ==
    /\ pc = "upload"
    /\ arquivo.presente
    /\ heap' = Append(heap, ImagemCarregada)
    /\ imagem' = Len(heap) + 1
    /\ pc' = "estimar"
    /\ UNCHANGED <<calibracao, widgets, imagem_anotada, resultados, idx,
                   previsoes, exibido>>

\* Lines 20-24: the model runs, the image is copied, the list is empty.
EstimarInicio ==
    /\ pc = "estimar"
    /\ resultados' = arquivo.boxes
    /\ LET nova == CopiaRef(heap, imagem)
       IN  /\ heap' = HeapComCopia(heap, imagem, nova)
           /\ imagem_anotada' = nova
    /\ previsoes' = <<>>
    /\ idx' = 1
    /\ pc' = "laco"
    /\ UNCHANGED <<calibracao, widgets, imagem, exibido>>

\* Lines 26-75, one pass of the loop body, leaving the density at densidade.
IterCorpo(densidade) ==
    /\ pc = "laco"
    /\ idx <= Len(resultados)
    /\ LET prev == Previsao(resultados[idx], DENSIDADE_MADEIRA,
                            FATOR_CONVERSAO, COMPRIMENTO_TORA)
       IN  /\ previsoes' = Append(previsoes, prev)
           /\ heap' = [heap EXCEPT ![imagem_anotada] = Desenha(@, Desenhos(prev))]
    /\ idx' = idx + 1
    /\ DENSIDADE_MADEIRA' = densidade
    /\ UNCHANGED <<pc, COMPRIMENTO_TORA, FATOR_CONVERSAO, widgets, imagem,
                   imagem_anotada, resultados, exibido>>

EstimarIterGrava == IterCorpo(DensidadeSelecionada)
\* Lines 26-75: the loop body writes none of the module globals.
EstimarIter == IterCorpo(DENSIDADE_MADEIRA)

\* Line 77: the loop is over, the function returns.
EstimarRetorno ==
    /\ pc = "laco"
    /\ idx > Len(resultados)
    /\ pc' = "resultados"
    /\ UNCHANGED <<calibracao, widgets, locais>>

\* Lines 100-127: the count, the records and, if there is one, the summary.
MostrarResultados ==
    /\ pc = "resultados"
    /\ exibido' = [toras |-> Len(previsoes),
                   resumo |-> IF previsoes # <<>> THEN Resumo(previsoes)
                              ELSE SemResumo]
    /\ pc' = "sidebar"
    /\ UNCHANGED <<calibracao, widgets, heap, imagem, imagem_anotada,
                   resultados, idx, previsoes>>

\* Lines 130-161: the sidebar assigns the selected density; the run ends.
Sidebar ==
    /\ pc = "sidebar"
    /\ DENSIDADE_MADEIRA' = DensidadeSelecionada
    /\ pc' = "ocioso"
    /\ UNCHANGED <<COMPRIMENTO_TORA, FATOR_CONVERSAO, widgets, locais>>

\* ------------------------------------ the user, between two script runs
\* A change of a widget makes Streamlit run the script again from line 1, in
\* a new namespace and on an emptied page.

NovoRun ==
    /\ heap' = <<>>
    /\ imagem' = 0
    /\ imagem_anotada' = 0
    /\ resultados' = <<>>
    /\ idx' = 0
    /\ previsoes' = <<>>
    /\ exibido' = NadaExibido
    /\ pc' = "inicio"

Upload(boxes) ==
    /\ pc = "ocioso"
    /\ arquivo' = [presente |-> TRUE, boxes |-> boxes]
    /\ NovoRun
    /\ UNCHANGED <<calibracao, tipo_madeira, densidade_personalizada>>

RemoverArquivo ==
    /\ pc = "ocioso"
    /\ arquivo.presente
    /\ arquivo' = SemArquivo
    /\ NovoRun
    /\ UNCHANGED <<calibracao, tipo_madeira, densidade_personalizada>>

SelecionarTipo(t) ==
    /\ pc = "ocioso"
    /\ t # tipo_madeira
    /\ tipo_madeira' = t
    /\ NovoRun
    /\ UNCHANGED <<calibracao, arquivo, densidade_personalizada>>

\* The number_input exists only while "Personalizado" is selected.
InformarDensidade(d) ==
    /\ pc = "ocioso"
    /\ tipo_madeira = "Personalizado"
    /\ d # densidade_personalizada
    /\ densidade_personalizada' = d
    /\ NovoRun
    /\ UNCHANGED <<calibracao, arquivo, tipo_madeira>>

\* The first run of a session: no upload, the first option, value=600.
Init ==
    /\ pc = "inicio"
    /\ DENSIDADE_MADEIRA = DENSIDADE_PADRAO
    /\ COMPRIMENTO_TORA = COMPRIMENTO_PADRAO
    /\ FATOR_CONVERSAO = FATOR_PADRAO
    /\ arquivo = SemArquivo
    /\ tipo_madeira = "Pinho"
    /\ densidade_personalizada = DENSIDADE_PADRAO
    /\ heap = <<>>
    /\ imagem = 0
    /\ imagem_anotada = 0
    /\ resultados = <<>>
    /\ idx = 0
    /\ previsoes = <<>>
    /\ exibido = NadaExibido

Next ==
    \/ Inicio
    \/ SemUpload
    \/ LerImagem
    \/ EstimarInicio
    \/ EstimarIter
    \/ EstimarRetorno
    \/ MostrarResultados
    \/ Sidebar
    \/ \E boxes \in ListasDeDeteccoes : Upload(boxes)
    \/ RemoverArquivo
    \/ \E t \in TiposMadeira : SelecionarTipo(t)
    \/ \E d \in DensidadesPersonalizadas : InformarDensidade(d)

Spec == Init /\ [][Next]_vars

\* --------------------------------- estimar_massa as a function of its inputs
\* The inputs of one call: the image, the boxes the model returns for it and
\* the module globals the body reads.

InitFn ==
    /\ pc = "estimar"
    /\ DENSIDADE_MADEIRA \in Densidades
    /\ COMPRIMENTO_TORA = COMPRIMENTO_PADRAO
    /\ FATOR_CONVERSAO = FATOR_PADRAO
    /\ arquivo \in [presente : {TRUE}, boxes : ListasDeDeteccoes]
    /\ tipo_madeira = "Pinho"
    /\ densidade_personalizada = DENSIDADE_PADRAO
    /\ heap = <<ImagemCarregada>>
    /\ imagem = 1
    /\ imagem_anotada = 0
    /\ resultados = <<>>
    /\ idx = 0
    /\ previsoes = <<>>
    /\ exibido = NadaExibido

NextFn ==
    \/ EstimarInicio
    \/ EstimarIter
    \/ EstimarRetorno

SpecFn == InitFn /\ [][NextFn]_vars

\* =============================================================== claims

\* The run has measured (part of) the boxes of the current upload.
Medindo == pc \in {"laco", "resultados"}
AposMedir == pc \in {"laco", "resultados", "sidebar", "ocioso"}

LarguraDe(prev) == prev.bbox[3] - prev.bbox[1]

\* C1: in every script run the density multiplied into massa_kg is the
\* density the sidebar widgets select for that run: every record of the run
\* carries the mass of its box at the selected density.
C1_DensidadeSelecionadaUsada ==
    AposMedir =>
        \A i \in 1..Len(previsoes) :
            previsoes[i].massa_kg * 4 =
                DensidadeSelecionada * PiNum * COMPRIMENTO_PADRAO
                    * (LarguraDe(previsoes[i]) * FATOR_PADRAO)
                    * (LarguraDe(previsoes[i]) * FATOR_PADRAO)

\* A coordinate c in pixels is the coordinate h in half pixels cut to an
\* integer (the model returns no negative coordinate).
Truncado(h, c) == 2 * c <= h /\ h < 2 * c + 2

\* C2: estimar_massa returns one record per detection, in the order of the
\* detections, and the i-th record carries the box (as integers) and the
\* confidence of the i-th detection.
C2_UmaPrevisaoPorDeteccao ==
    Medindo =>
        /\ resultados = arquivo.boxes
        /\ Len(previsoes) = idx - 1
        /\ pc = "resultados" => Len(previsoes) = Len(resultados)
        /\ \A i \in 1..Len(previsoes) :
              /\ \A k \in 1..4 :
                    Truncado(resultados[i].xyxy[k], previsoes[i].bbox[k])
              /\ previsoes[i].confianca = resultados[i].conf

\* C2 witness: a pass over two different detections has returned.
C2_Witness ==
    /\ pc = "resultados"
    /\ Len(resultados) = 2
    /\ Len(previsoes) = 2
    /\ resultados[1].xyxy # resultados[2].xyxy
    /\ resultados[1].conf # resultados[2].conf

\* C3: every record has diametro_m = (x2 - x1) * FATOR_CONVERSAO and
\* massa_kg = DENSIDADE_MADEIRA * pi * (diametro_m / 2)^2 * COMPRIMENTO_TORA
\* with COMPRIMENTO_TORA = 2.0; box (100, 100, 200, 150) at factor 0.002 and
\* density 600 gives a diameter of 0.2 m and a mass that prints as 37.7 kg.
C3_FormulaDaMassa ==
    Medindo =>
        /\ COMPRIMENTO_TORA = 2
        /\ \A i \in 1..Len(previsoes) :
              LET p == previsoes[i]
                  d == LarguraDe(p) * FATOR_CONVERSAO
              IN  /\ p.diametro_m = d
                  /\ p.massa_kg =
                        DENSIDADE_MADEIRA * PiNum * ((d * d) \div 4) * COMPRIMENTO_TORA
                  /\ (p.bbox = <<100, 100, 200, 150>> /\ FATOR_CONVERSAO = 2
                        /\ DENSIDADE_MADEIRA = 600) =>
                        /\ p.diametro_m = 200
                        /\ Arredonda(p.massa_kg, Escala \div 10) = 377

\* C3 witness: the box of scenario 1 has been measured at density 600.
C3_Witness ==
    /\ pc = "resultados"
    /\ DENSIDADE_MADEIRA = 600
    /\ \E i \in 1..Len(previsoes) :
          /\ previsoes[i].bbox = <<100, 100, 200, 150>>
          /\ previsoes[i].diametro_m = 200
          /\ Arredonda(previsoes[i].massa_kg, Escala \div 10) = 377

\* The detections of the current upload whose integer box has a width > 0.
Validas == {i \in 1..Len(resultados) :
               IntTrunc(resultados[i].xyxy[3]) - IntTrunc(resultados[i].xyxy[1]) > 0}

\* C4: a detection whose box has zero or negative width is skipped: no
\* record is emitted for it, and the count shown is that of the other
\* detections.
C4_CaixaDegeneradaIgnorada ==
    AposMedir =>
        /\ \A i \in 1..Len(previsoes) : LarguraDe(previsoes[i]) > 0
        /\ exibido.toras >= 0 => exibido.toras = Cardinality(Validas)

\* C5: for a detection with x2 - x1 = 0 no record with massa_kg > 0 is
\* produced, whatever the density.
C5_LarguraZeroSemMassa ==
    Medindo =>
        \A i \in 1..Len(previsoes) :
            LarguraDe(previsoes[i]) = 0 => ~(previsoes[i].massa_kg > 0)

\* C5 witness: a box of width 0 has been measured at the largest density.
C5_Witness ==
    /\ pc = "resultados"
    /\ DENSIDADE_MADEIRA = 1000
    /\ \E i \in 1..Len(previsoes) :
          LarguraDe(previsoes[i]) = 0 /\ previsoes[i].massa_kg = 0

\* C6: for boxes of width > 0, massa_kg is strictly increasing in the width
\* at a fixed density (two records of one pass) and strictly increasing in
\* the density at a fixed width (the record against the same box at every
\* larger density).
C6_MassaCrescente ==
    Medindo =>
        /\ \A i, j \in 1..Len(previsoes) :
              (0 < LarguraDe(previsoes[i])
                 /\ LarguraDe(previsoes[i]) < LarguraDe(previsoes[j])) =>
                 previsoes[i].massa_kg < previsoes[j].massa_kg
        /\ \A i \in 1..Len(previsoes) : \A maior \in Densidades :
              (0 < LarguraDe(previsoes[i]) /\ DENSIDADE_MADEIRA < maior) =>
                 previsoes[i].massa_kg <
                    MassaDe(LarguraDe(previsoes[i]), maior,
                            FATOR_CONVERSAO, COMPRIMENTO_TORA)

\* C6 witness: a pass has measured two boxes whose widths differ by one
\* pixel, at a density that is not the largest.
C6_Witness ==
    /\ pc = "resultados"
    /\ DENSIDADE_MADEIRA < 1000
    /\ \E i, j \in 1..Len(previsoes) :
          /\ LarguraDe(previsoes[i]) = 100
          /\ LarguraDe(previsoes[j]) = 101
          /\ previsoes[i].massa_kg < previsoes[j].massa_kg

\* C7: when the model returns no detection, estimar_massa returns no record
\* and an annotated image equal to the input image, nothing drawn on it.
C7_SemDeteccoes ==
    (pc = "resultados" /\ resultados = <<>>) =>
        /\ previsoes = <<>>
        /\ heap[imagem_anotada] = ImagemCarregada
        /\ heap[imagem_anotada] = heap[imagem]

\* C7 witness: a pass over an image without detections has returned.
C7_Witness ==
    /\ pc = "resultados"
    /\ arquivo.presente
    /\ arquivo.boxes = <<>>
    /\ imagem_anotada # 0
    /\ previsoes = <<>>

\* C8: from the start to the return of estimar_massa no step writes
\* DENSIDADE_MADEIRA, FATOR_CONVERSAO or COMPRIMENTO_TORA.
C8_CalibracaoFixaNoPasse ==
    [][(pc \in {"estimar", "laco"}) => (calibracao' = calibracao)]_vars

\* C8 witness: a pass over two detections has returned while the widgets
\* select a density other than the one in DENSIDADE_MADEIRA.
C8_Witness ==
    /\ pc = "resultados"
    /\ Len(previsoes) = 2
    /\ DensidadeSelecionada # DENSIDADE_MADEIRA

RECURSIVE SomaAte(_, _, _)
\* The sum of field campo ("massa_kg" or "diametro_m") over ps[1..n].
SomaAte(ps, n, campo) ==
    IF n = 0 THEN 0
    ELSE SomaAte(ps, n - 1, campo)
           + (IF campo = "massa_kg" THEN ps[n].massa_kg ELSE ps[n].diametro_m)

\* C9: the summary shows massa_total = the sum of massa_kg over the records
\* and diametro_medio = the sum of diametro_m over their number; it is shown
\* only when there is a record, and always then; two records of equal width
\* give twice the mass of one and the diameter of one.
C9_Resumo ==
    LET r == exibido.resumo
        n == Len(previsoes)
    IN  /\ r.mostrado =>
              /\ n >= 1
              /\ r.massa_total = SomaAte(previsoes, n, "massa_kg")
              /\ r.diametro_medio.num = SomaAte(previsoes, n, "diametro_m")
              /\ r.diametro_medio.den = n
              /\ (n = 2 /\ LarguraDe(previsoes[1]) = LarguraDe(previsoes[2])) =>
                    /\ r.massa_total = 2 * previsoes[1].massa_kg
                    /\ r.diametro_medio.num =
                          r.diametro_medio.den * previsoes[1].diametro_m
        /\ pc \in {"sidebar", "ocioso"} => (r.mostrado <=> n >= 1)

\* C9 witness: the summary of two boxes of equal width > 0 is shown.
C9_Witness ==
    /\ exibido.resumo.mostrado
    /\ exibido.toras = 2
    /\ Len(previsoes) = 2
    /\ LarguraDe(previsoes[1]) = 100
    /\ LarguraDe(previsoes[2]) = 100
    /\ exibido.resumo.massa_total > 0

\* C10: every drawing is made on the copy: during and after the pass the
\* array the caller passed holds what it held at the call.
C10_EntradaIntacta ==
    Medindo => heap[imagem] = ImagemCarregada

\* C10 witness: a pass has drawn two detections on the annotated image.
C10_Witness ==
    /\ pc = "resultados"
    /\ Len(previsoes) = 2
    /\ Len(heap[imagem_anotada].ops) = 6
    /\ heap[imagem] = ImagemCarregada

====
